---------------------------- MODULE Spec2Model ----------------------------
(***************************************************************************)
(* Retrieval aggregation of the ATLAS backend (backend/fastapi).           *)
(*                                                                         *)
(* One request at a time is followed through one of the two entry points   *)
(* that rank documents:                                                    *)
(*   GET  /search_rag            main.search_rag (validated parameters)    *)
(*   POST /search_rag_plus_graph main.search_rag_plus_graph, which calls   *)
(*                               utils.search_rag inside try/except        *)
(* The two ranking functions are line-by-line copies of each other except  *)
(* for the empty-pool branch and the conversion of ord; the model shares   *)
(* their steps and branches on the entry point where they differ.          *)
(*                                                                         *)
(* build_graph_for_chunks is also followed on its own (GraphSpec): called  *)
(* twice with any list of key dicts against a fixed graph store.            *)
(*                                                                         *)
(* Values: a distance is a natural number (a scaled float), an average is  *)
(* the exact fraction [num, den], a Python Optional is <<>> (None) or      *)
(* <<v>>, identifiers and texts are opaque numbers.                        *)
(***************************************************************************)
EXTENDS Integers, Sequences, FiniteSets, TLC

\* ------------------------------------------------------------------ bounds
MaxPool == 4
MaxDocs == 3
MaxDist == 1
MaxTopDocs == 2
MaxTopChunks == 2
NegTopK == 1

\* ------------------------------------------------------- program constants
TopDocsGe == 1
TopChunksGe == 1
PlusGraphTopChunks == 3
HitsPerDoc == 3

GET_RAG == "GET /search_rag"
POST_PLUS == "POST /search_rag_plus_graph"

None == <<>>
Some(v) == <<v>>

Min(a, b) == IF a <= b THEN a ELSE b
Max(a, b) == IF a >= b THEN a ELSE b

\* Python's s[:k]: the first k elements, and for k < 0 all but the last -k.
PyPrefix(s, k) ==
    IF k >= 0 THEN SubSeq(s, 1, Min(k, Len(s)))
    ELSE SubSeq(s, 1, Max(0, Len(s) + k))

RECURSIVE SumDistances(_)
SumDistances(chunks) ==
    IF chunks = <<>> THEN 0
    ELSE Head(chunks).distance + SumDistances(Tail(chunks))

SeqToSet(s) == {s[i] : i \in 1..Len(s)}

\* ------------------------------------------------------------- the stores
\* The document table: every document row has a title, a source_url (which
\* may be NULL) and a sha256.
DocIds == 1..MaxDocs
DocumentRow(d) ==
    [title |-> Some(300 + d),
     source_url |-> IF d = 1 THEN None ELSE Some(400 + d),
     sha256 |-> Some(200 + d)]

\* The entity table: name is UNIQUE, so a name has one type.
EntityType(name) == IF name = "Acme" THEN "ORG" ELSE "PERSON"

\* The chunk_entity table: the entities linked to a chunk, in the order the
\* table holds them.  A (chunk, entity) link is UNIQUE.
EntityLinks(chunk_id) ==
    IF chunk_id % 4 = 1 THEN <<"Acme">>
    ELSE IF chunk_id % 4 = 2 THEN <<>>
    ELSE IF chunk_id % 4 = 3 THEN <<"Bob", "Acme">>
    ELSE <<"Acme", "Bob">>

\* A row of the nearest-neighbour query.  The code compares chunk ids and
\* document ids for equality only: a chunk is named by its rank in the pool,
\* a document by the rank of its first hit.
ChunkRow(i, d, o, x) ==
    [chunk_id |-> i, document_id |-> d, ord |-> Some(o), text |-> 100 + i,
     distance |-> x]

\* ord of the i-th row: chunk.ord is NOT NULL and (document_id, ord) is UNIQUE.
OrdOf(docs, i) == Cardinality({j \in 1..(i - 1) : docs[j] = docs[i]})

\* Every pool the query can return: at most MaxPool rows of at most MaxDocs
\* documents, ascending by distance (ORDER BY c.embedding <-> q).
NonDecreasing(xs) == \A i \in 1..(Len(xs) - 1) : xs[i] <= xs[i + 1]
FirstHitOrder(docs) ==
    \A i \in DOMAIN docs :
       docs[i] <= 1 + Cardinality({docs[j] : j \in 1..(i - 1)})
Pools ==
    UNION {
      { [i \in 1..n |-> ChunkRow(i, docs[i], OrdOf(docs, i), xs[i])] :
          docs \in {ds \in [1..n -> DocIds] : FirstHitOrder(ds)},
          xs \in {ys \in [1..n -> 0..MaxDist] : NonDecreasing(ys)} }
      : n \in 0..MaxPool }

\* The rows of the entity join for the selected chunks (chunk_id, name,
\* type).  The query has no ORDER BY: the rows come in the table's order or
\* in the opposite one.
RECURSIVE JoinRows(_)
JoinRows(chunk_ids) ==
    IF chunk_ids = <<>> THEN <<>>
    ELSE [i \in 1..Len(EntityLinks(Head(chunk_ids))) |->
             <<Head(chunk_ids), EntityLinks(Head(chunk_ids))[i],
               EntityType(EntityLinks(Head(chunk_ids))[i])>>]
         \o JoinRows(Tail(chunk_ids))

Reverse(s) == [i \in 1..Len(s) |-> s[Len(s) + 1 - i]]

RECURSIVE Ascending(_)
Ascending(ids) ==
    IF ids = {} THEN <<>>
    ELSE LET m == CHOOSE m \in ids : \A x \in ids : m <= x
         IN  <<m>> \o Ascending(ids \ {m})

EntRowSeqs(sel_chunk_ids) ==
    {JoinRows(Ascending(SeqToSet(sel_chunk_ids))),
     Reverse(JoinRows(Ascending(SeqToSet(sel_chunk_ids))))}

\* --------------------------------------------------- 3) aggregate by document
\* utils.search_rag stores int(ord_) if ord_ is not None else 0; the GET
\* handler stores ord_ as fetched.
IntOrZero(o) == IF o = None THEN 0 ELSE o[1]
ChunkDict(row, ep) ==
    [chunk_id |-> row.chunk_id,
     ord |-> IF ep = POST_PLUS THEN Some(IntOrZero(row.ord)) ELSE row.ord,
     text |-> row.text,
     distance |-> row.distance]

\* docs_tmp[document_id]["chunks"].append(...): docs_tmp is a defaultdict,
\* kept here as the sequence of its entries in insertion order.
GroupIndex(tmp, d) == {k \in 1..Len(tmp) : tmp[k].document_id = d}
AppendHit(tmp, row, ep) ==
    IF GroupIndex(tmp, row.document_id) = {}
    THEN Append(tmp, [document_id |-> row.document_id,
                      chunks |-> <<ChunkDict(row, ep)>>,
                      agg_scores |-> <<row.distance>>])
    ELSE LET k == CHOOSE k \in GroupIndex(tmp, row.document_id) : TRUE
         IN  [tmp EXCEPT ![k].chunks = Append(@, ChunkDict(row, ep)),
                         ![k].agg_scores = Append(@, row.distance)]

\* A grouping that assigns instead of appending: each group keeps its last hit.
AssignHit(tmp, row, ep) ==
    IF GroupIndex(tmp, row.document_id) = {}
    THEN Append(tmp, [document_id |-> row.document_id,
                      chunks |-> <<ChunkDict(row, ep)>>,
                      agg_scores |-> <<row.distance>>])
    ELSE LET k == CHOOSE k \in GroupIndex(tmp, row.document_id) : TRUE
         IN  [tmp EXCEPT ![k].chunks = <<ChunkDict(row, ep)>>,
                         ![k].agg_scores = <<row.distance>>]

RECURSIVE GroupLastOnly(_, _)
GroupLastOnly(rs, ep) ==
    IF rs = <<>> THEN <<>>
    ELSE AssignHit(GroupLastOnly(SubSeq(rs, 1, Len(rs) - 1), ep), rs[Len(rs)], ep)

RECURSIVE GroupByDocument(_, _)
GroupByDocument(rs, ep) ==
    IF rs = <<>> THEN <<>>
    ELSE AppendHit(GroupByDocument(SubSeq(rs, 1, Len(rs) - 1), ep), rs[Len(rs)], ep)

\* ------------------------------------- 4) top_chunks per document, average
\* sorted(info["chunks"], key=distance): Python's sort is stable.
InsertChunk(sorted, c) ==
    LET k == Cardinality({i \in 1..Len(sorted) : sorted[i].distance <= c.distance})
    IN  SubSeq(sorted, 1, k) \o <<c>> \o SubSeq(sorted, k + 1, Len(sorted))

RECURSIVE SortChunks(_)
SortChunks(chunks) ==
    IF chunks = <<>> THEN <<>>
    ELSE InsertChunk(SortChunks(SubSeq(chunks, 1, Len(chunks) - 1)), chunks[Len(chunks)])

\* A cut that keeps one chunk too many.
KeepOneMore(chunks, top_chunks) == PyPrefix(SortChunks(chunks), top_chunks + 1)

KeepTopChunks(chunks, top_chunks) == PyPrefix(SortChunks(chunks), top_chunks)

\* sum(...) / len(...), as the exact fraction.
Mean(chunks) == [num |-> SumDistances(chunks), den |-> Len(chunks)]

\* An average taken over agg_scores, all the hits of the document.
DocEntryOverAllHits(info, top_chunks) ==
    [document_id |-> info.document_id,
     avg_distance |-> [num |-> SumDistances(info.chunks), den |-> Len(info.chunks)],
     chunks |-> KeepTopChunks(info.chunks, top_chunks)]

DocEntry(info, top_chunks) ==
    LET sorted_chunks == KeepTopChunks(info.chunks, top_chunks)
    IN  [document_id |-> info.document_id,
         avg_distance |-> Mean(sorted_chunks),
         chunks |-> sorted_chunks]

\* len(sorted_chunks) = 0 makes the division raise ZeroDivisionError.
SomeGroupEmpty(tmp, top_chunks) ==
    \E k \in 1..Len(tmp) : KeepTopChunks(tmp[k].chunks, top_chunks) = <<>>

DocsList(tmp, top_chunks) == [k \in 1..Len(tmp) |-> DocEntry(tmp[k], top_chunks)]

\* --------------------------------------------- 5) sort documents, top_docs
AvgLeq(a, b) == a.num * b.den <= b.num * a.den
AvgLess(a, b) == a.num * b.den < b.num * a.den

InsertDoc(sorted, d) ==
    LET k == Cardinality({i \in 1..Len(sorted) :
                            AvgLeq(sorted[i].avg_distance, d.avg_distance)})
    IN  SubSeq(sorted, 1, k) \o <<d>> \o SubSeq(sorted, k + 1, Len(sorted))

\* A ranking that leaves the documents in the order of their first hit.
LeaveUnsorted(docs) == docs

RECURSIVE SortDocs(_)
SortDocs(docs) ==
    IF docs = <<>> THEN <<>>
    ELSE InsertDoc(SortDocs(SubSeq(docs, 1, Len(docs) - 1)), docs[Len(docs)])

SelectTopDocs(docs, top_docs) == PyPrefix(SortDocs(docs), top_docs)

\* ------------------------------------------------- 6) document metadata
\* meta_map = {id: {title, source_url, sha256}} for the selected documents.
MetaMap(selected_doc_ids) ==
    [d \in SeqToSet(selected_doc_ids) |-> DocumentRow(d)]

\* The tables as init_db creates them ("schema") hold a document row for
\* every chunk and an ord in every chunk row.  The code is written for
\* tables that do not (meta_map.get(doc_id, {}), "if ord_ is not None"):
\* in the "loose" store document 1 has no row in the document table and the
\* chunks of document 2 have a NULL ord.
LooseRow(r) == IF r.document_id = 2 THEN [r EXCEPT !.ord = None] ELSE r
StoredPools(st) ==
    IF st = "schema" THEN Pools
    ELSE {[i \in 1..Len(p) |-> LooseRow(p[i])] : p \in Pools}
StoredMetaMap(st, selected_doc_ids) ==
    IF st = "schema" THEN MetaMap(selected_doc_ids)
    ELSE [d \in SeqToSet(selected_doc_ids) \ {1} |-> DocumentRow(d)]

\* meta.get(key) with meta = meta_map.get(doc_id, {}).
MetaGet(mm, doc_id, key) ==
    IF doc_id \in DOMAIN mm THEN mm[doc_id][key] ELSE None

\* --------------------------------------------------------- 7) entities
SelChunkIds(docs) ==
    LET RECURSIVE Flat(_)
        Flat(k) == IF k = 0 THEN <<>>
                   ELSE Flat(k - 1) \o [i \in 1..Len(docs[k].chunks) |->
                                           docs[k].chunks[i].chunk_id]
    IN  Flat(Len(docs))

\* chunk_to_entities[chunk_id].append({"name", "type"}) over the rows in
\* the order fetched; .get(chunk_id, []) for a chunk without rows.
RECURSIVE EntitiesOfChunk(_, _)
EntitiesOfChunk(ent_rows_, chunk_id) ==
    IF ent_rows_ = <<>> THEN <<>>
    ELSE LET r == Head(ent_rows_)
             rest == EntitiesOfChunk(Tail(ent_rows_), chunk_id)
         IN  IF r[1] = chunk_id THEN <<[name |-> r[2], type |-> r[3]]>> \o rest
             ELSE rest

\* One document: walk the chunks, then each chunk's entities; append the
\* entity unless its (name, type) is in seen.
RECURSIVE AppendUnseen(_, _)
AppendUnseen(acc, ents) ==
    IF ents = <<>> THEN acc
    ELSE AppendUnseen(IF \E i \in 1..Len(acc) :
                            <<acc[i].name, acc[i].type>> =
                            <<Head(ents).name, Head(ents).type>>
                      THEN acc
                      ELSE Append(acc, [name |-> Head(ents).name,
                                        type |-> Head(ents).type]),
                      Tail(ents))

\* The walk without the seen set.
RECURSIVE DocEntitiesNoDedup(_, _)
DocEntitiesNoDedup(chunks, ent_rows_) ==
    IF chunks = <<>> THEN <<>>
    ELSE DocEntitiesNoDedup(SubSeq(chunks, 1, Len(chunks) - 1), ent_rows_)
         \o EntitiesOfChunk(ent_rows_, chunks[Len(chunks)].chunk_id)

RECURSIVE DocEntities(_, _)
DocEntities(chunks, ent_rows_) ==
    IF chunks = <<>> THEN <<>>
    ELSE AppendUnseen(DocEntities(SubSeq(chunks, 1, Len(chunks) - 1), ent_rows_),
                      EntitiesOfChunk(ent_rows_, chunks[Len(chunks)].chunk_id))

\* entities_map is a defaultdict(list): a key exists once something was
\* appended under it.
EntitiesMap(docs, ent_rows_) ==
    LET withEnts == {k \in 1..Len(docs) : DocEntities(docs[k].chunks, ent_rows_) # <<>>}
    IN  [d \in {docs[k].document_id : k \in withEnts} |->
            LET k == CHOOSE k \in withEnts : docs[k].document_id = d
            IN  DocEntities(docs[k].chunks, ent_rows_)]

EmptyMap == [d \in {} |-> <<>>]

\* entities_map[doc_id]: None for a missing key.
EntitiesIndex(em, doc_id) == IF doc_id \in DOMAIN em THEN Some(em[doc_id]) ELSE None

\* entities_map.get(doc_id, [])
EntitiesGet(em, doc_id) == IF doc_id \in DOMAIN em THEN Some(em[doc_id]) ELSE Some(<<>>)

\* ------------------------------------------------------- 8) final results
ResultEntry(d, mm, em) ==
    [document_id |-> d.document_id,
     title |-> MetaGet(mm, d.document_id, "title"),
     source_url |-> MetaGet(mm, d.document_id, "source_url"),
     sha256 |-> MetaGet(mm, d.document_id, "sha256"),
     avg_distance |-> d.avg_distance,
     chunks |-> d.chunks,
     entities |-> EntitiesGet(em, d.document_id)]

BuildResults(docs, mm, em) == [k \in 1..Len(docs) |-> ResultEntry(docs[k], mm, em)]

\* ------------------------------------------- search_rag_plus_graph: hits
\* A hit whose score is the distance itself.
HitScoreIsDistance(d, c) ==
    [text |-> c.text,
     score |-> c.distance,
     sha256 |-> d.sha256,
     ord |-> c.ord,
     chunk_id |-> c.chunk_id,
     title |-> d.title,
     document_id |-> d.document_id]

HitOf(d, c) ==
    [text |-> c.text,
     score |-> 0 - c.distance,
     sha256 |-> d.sha256,
     ord |-> c.ord,
     chunk_id |-> c.chunk_id,
     title |-> d.title,
     document_id |-> d.document_id]

RECURSIVE EmitHits(_)
EmitHits(results_) ==
    IF results_ = <<>> THEN <<>>
    ELSE EmitHits(SubSeq(results_, 1, Len(results_) - 1)) \o
         [i \in 1..Len(results_[Len(results_)].chunks) |->
             HitOf(results_[Len(results_)], results_[Len(results_)].chunks[i])]

\* sorted(hits, key=score, reverse=True) keeps equal scores in their order.
InsertHit(sorted, h) ==
    LET k == Cardinality({i \in 1..Len(sorted) : sorted[i].score >= h.score})
    IN  SubSeq(sorted, 1, k) \o <<h>> \o SubSeq(sorted, k + 1, Len(sorted))

RECURSIVE SortHits(_)
SortHits(hs) ==
    IF hs = <<>> THEN <<>>
    ELSE InsertHit(SortHits(SubSeq(hs, 1, Len(hs) - 1)), hs[Len(hs)])

FlattenHits(results_, top_k) == PyPrefix(SortHits(EmitHits(results_)), top_k * HitsPerDoc)

\* keys for the graph: hits that have both sha256 and ord.
RECURSIVE GraphKeys(_)
GraphKeys(hs) ==
    IF hs = <<>> THEN <<>>
    ELSE LET h == hs[Len(hs)]
             rest == GraphKeys(SubSeq(hs, 1, Len(hs) - 1))
         IN  IF h.sha256 # None /\ h.ord # None
             THEN Append(rest, [sha256 |-> h.sha256[1], ord |-> h.ord[1]])
             ELSE rest

EmptyGraph == [nodes |-> <<>>, edges |-> <<>>]

\* ---------------------------------------------- the graph store (Neo4j)
\* Bulk ingestion writes (:Document {sha256})-[:HAS_CHUNK]->(:Chunk {ord});
\* a chunk -[:MENTIONS]-> (:Entity).  Document.sha256 and Chunk(doc_sha, ord)
\* are unique.  An entity is known by its element id.  Document 202 has a
\* single chunk in the store: a key (202, 1) matches nothing.
MaxEntPerChunk == 4
NeoEntity(eid) ==
    IF eid = 501 THEN [name |-> "Acme", type |-> "ORG"]
    ELSE [name |-> "Bob", type |-> "PERSON"]
NeoMentions(sha, ord) == IF ord = 0 THEN <<501, 502>> ELSE <<501>>
NeoDocument(sha) ==
    [sha256 |-> sha, title |-> Some(sha + 100),
     source_url |-> IF sha = 201 THEN None ELSE Some(sha + 200)]
NeoChunkText(sha, ord) == 1000 + 10 * sha + ord
NeoHasChunk(sha, ord) == ~(sha = 202 /\ ord = 1)

\* The query has no ORDER BY: the order in which the store yields the
\* MENTIONS of a chunk is the store's choice, forward or backward here.
ScanOrders == {"fwd", "rev"}
NeoScan(sha, ord, scan) ==
    IF scan = "fwd" THEN NeoMentions(sha, ord) ELSE Reverse(NeoMentions(sha, ord))

\* _GRAPH_CYPHER: one row per matched (d, c), in the order of the keys.
RECURSIVE DistinctSeq(_)
DistinctSeq(s) ==
    IF s = <<>> THEN <<>>
    ELSE LET rest == DistinctSeq(SubSeq(s, 1, Len(s) - 1))
         IN  IF \E i \in 1..Len(rest) : rest[i] = s[Len(s)] THEN rest
             ELSE Append(rest, s[Len(s)])

RECURSIVE FlattenSeqs(_)
FlattenSeqs(ss) == IF ss = <<>> THEN <<>> ELSE Head(ss) \o FlattenSeqs(Tail(ss))

\* MATCH (d:Document {sha256: k.sha256})-[:HAS_CHUNK]->(c:Chunk {ord: k.ord})
RECURSIVE CyMatch(_)
CyMatch(keys) ==
    IF keys = <<>> THEN <<>>
    ELSE IF NeoHasChunk(Head(keys).sha256, Head(keys).ord)
    THEN <<Head(keys)>> \o CyMatch(Tail(keys))
    ELSE CyMatch(Tail(keys))

CyDocNode(k) ==
    [id |-> <<"doc", k.sha256>>, label |-> NeoDocument(k.sha256).title,
     type |-> "doc", sha256 |-> Some(k.sha256),
     fullTitle |-> NeoDocument(k.sha256).title,
     sourceUrl |-> NeoDocument(k.sha256).source_url]
\* A chunk node whose id leaves out the ordinal.
CyChunkNodeIdBySha(k) ==
    [id |-> <<"chunk", k.sha256>>,
     label |-> <<"first80", NeoChunkText(k.sha256, k.ord)>>,
     type |-> "chunk", sha256 |-> Some(k.sha256), ord |-> k.ord,
     preview |-> <<"first200", NeoChunkText(k.sha256, k.ord)>>]
CyChunkNode(k) ==
    [id |-> <<"chunk", k.sha256, k.ord>>,
     label |-> <<"first80", NeoChunkText(k.sha256, k.ord)>>,
     type |-> "chunk", sha256 |-> Some(k.sha256), ord |-> k.ord,
     preview |-> <<"first200", NeoChunkText(k.sha256, k.ord)>>]
\* A collect that is not cut.
CyEntsUncut(k, maxEntPerChunk, scan) == NeoScan(k.sha256, k.ord, scan)
\* collect(DISTINCT e)[..$maxEntPerChunk]
CyEnts(k, maxEntPerChunk, scan) ==
    SubSeq(NeoScan(k.sha256, k.ord, scan), 1,
           Min(maxEntPerChunk, Len(NeoScan(k.sha256, k.ord, scan))))
CyEntNodes(k, maxEntPerChunk, scan) ==
    [i \in 1..Len(CyEnts(k, maxEntPerChunk, scan)) |->
        LET x == CyEnts(k, maxEntPerChunk, scan)[i]
        IN  [id |-> <<"entity", x>>,
             label |-> <<NeoEntity(x).name, NeoEntity(x).type>>,
             type |-> "entity", entityType |-> NeoEntity(x).type,
             name |-> NeoEntity(x).name]]
CyDocChunkEdge(k) ==
    [s |-> <<"doc", k.sha256>>, t |-> <<"chunk", k.sha256, k.ord>>,
     label |-> "HAS_CHUNK"]
\* MENTIONS edges built from every mention instead of from ents.
CyEntChunkEdgesOfAllMentions(k, maxEntPerChunk, scan) ==
    [i \in 1..Len(NeoScan(k.sha256, k.ord, scan)) |->
        [s |-> <<"chunk", k.sha256, k.ord>>,
         t |-> <<"entity", NeoScan(k.sha256, k.ord, scan)[i]>>,
         label |-> "MENTIONS"]]
CyEntChunkEdges(k, maxEntPerChunk, scan) ==
    [i \in 1..Len(CyEnts(k, maxEntPerChunk, scan)) |->
        [s |-> <<"chunk", k.sha256, k.ord>>,
         t |-> <<"entity", CyEnts(k, maxEntPerChunk, scan)[i]>>,
         label |-> "MENTIONS"]]

GraphCypher(keys, maxEntPerChunk, scan) ==
    LET matched == DistinctSeq(CyMatch(keys))
        n == Len(matched)
    IN  [docs |-> DistinctSeq([i \in 1..n |-> CyDocNode(matched[i])]),
         chunks |-> DistinctSeq([i \in 1..n |-> CyChunkNode(matched[i])]),
         entities |-> DistinctSeq(FlattenSeqs(
                         [i \in 1..n |-> CyEntNodes(matched[i], maxEntPerChunk, scan)])),
         docChunkEdges |-> DistinctSeq([i \in 1..n |-> CyDocChunkEdge(matched[i])]),
         entChunkEdges |-> DistinctSeq(FlattenSeqs(
                         [i \in 1..n |-> CyEntChunkEdges(matched[i], maxEntPerChunk, scan)]))]

\* ------------------------------------------------ build_graph_for_chunks
NodeData(n) ==
    IF n.type = "doc"
    THEN [id |-> n.id, label |-> n.label, type |-> n.type,
          fullTitle |-> n.fullTitle, sourceUrl |-> n.sourceUrl]
    ELSE IF n.type = "chunk"
    THEN [id |-> n.id, label |-> n.label, type |-> n.type,
          ord |-> n.ord, preview |-> n.preview, sha256 |-> n.sha256]
    ELSE [id |-> n.id, label |-> n.label, type |-> n.type,
          entityType |-> n.entityType, name |-> n.name]

RECURSIVE AddNodes(_)
AddNodes(ns) ==
    IF ns = <<>> THEN <<>>
    ELSE LET acc == AddNodes(SubSeq(ns, 1, Len(ns) - 1))
             n == ns[Len(ns)]
         IN  IF \E i \in 1..Len(acc) : acc[i].data.id = n.id THEN acc
             ELSE Append(acc, [data |-> NodeData(n)])

\* An edge id that leaves out the label.
EdgeIdNoLabel(e) == <<"e", e.s, e.t>>
\* f"e:{source}->{target}:{label}"
EdgeId(e) == <<"e", e.s, e.t, e.label>>

RECURSIVE AddEdges(_)
AddEdges(es) ==
    IF es = <<>> THEN <<>>
    ELSE LET acc == AddEdges(SubSeq(es, 1, Len(es) - 1))
             e == es[Len(es)]
         IN  IF \E i \in 1..Len(acc) : acc[i].data.id = EdgeId(e) THEN acc
             ELSE Append(acc, [data |-> [id |-> EdgeId(e), source |-> e.s,
                                         target |-> e.t, label |-> e.label]])

GraphElements(rec) ==
    [nodes |-> AddNodes(rec.docs \o rec.chunks \o rec.entities),
     edges |-> AddEdges(rec.docChunkEdges \o rec.entChunkEdges)]

\* A chunk key is a dict: key.get("sha256") and key.get("ord") are None when
\* the field is missing.  A present sha256 is a string, "" being EmptyStr; a
\* present ord is a Python value: an int, a str of digits, a str that is no
\* number, or float("inf").
EmptyStr == 0
PyOrd(py, v) == [py |-> py, v |-> v]

\* int(x): the int itself, the number a str of digits spells, ValueError for
\* any other str, OverflowError for an infinite float.
PyInt(x) ==
    IF x.py \in {"int", "digits"} THEN [exc |-> "none", v |-> x.v]
    ELSE IF x.py = "word" THEN [exc |-> "ValueError", v |-> 0]
    ELSE [exc |-> "OverflowError", v |-> 0]

\* if key.get("sha256") and key.get("ord") is not None
KeyPasses(key) ==
    key.sha256 # None /\ key.sha256[1] # EmptyStr /\ key.ord # None

\* except (ValueError, TypeError): logging.warning(...); continue
CaughtPerKey == {"ValueError", "TypeError"}

\* The validation loop, key by key: valid keys are collected in order; an
\* exception of int() that the except clause does not name leaves the loop.
RECURSIVE ValidateKeys(_)
ValidateKeys(chunk_keys) ==
    IF chunk_keys = <<>> THEN [exc |-> "none", valid |-> <<>>]
    ELSE LET prev == ValidateKeys(SubSeq(chunk_keys, 1, Len(chunk_keys) - 1))
             key == chunk_keys[Len(chunk_keys)]
             c == PyInt(key.ord[1])
         IN  IF prev.exc # "none" \/ ~KeyPasses(key) THEN prev
             ELSE IF c.exc = "none"
             THEN [exc |-> "none",
                   valid |-> Append(prev.valid,
                                    [sha256 |-> key.sha256[1], ord |-> c.v])]
             ELSE IF c.exc \in CaughtPerKey THEN prev
             ELSE [exc |-> c.exc, valid |-> prev.valid]

\* How a call ends: it returns elements or raises; sent is the keys handed
\* to the graph source, None when the source was not queried.
GraphReturn(elements, sent) ==
    [kind |-> "return", exc |-> "none", value |-> elements, sent |-> sent]
GraphRaise(exc, sent) ==
    [kind |-> "raise", exc |-> exc, value |-> EmptyGraph, sent |-> sent]

\* What the graph source does with one query: it fails, or it answers,
\* scanning relationships in some order.
GraphSources == [fails : BOOLEAN, scan : ScanOrders]

\* build_graph_for_chunks(chunk_keys, max_ent_per_chunk, neo_driver=...)
BuildGraphForChunks(chunk_keys, max_ent_per_chunk, neo_driver, src) ==
    IF ~neo_driver THEN GraphRaise("RuntimeError", None)
    ELSE LET v == ValidateKeys(chunk_keys)
         IN  IF v.exc # "none" THEN GraphRaise(v.exc, None)
             ELSE IF v.valid = <<>> THEN GraphReturn(EmptyGraph, None)
             ELSE IF src.fails
             THEN GraphRaise("ServiceUnavailable", Some(v.valid))
             ELSE GraphReturn(
                      GraphElements(GraphCypher(v.valid, max_ent_per_chunk, src.scan)),
                      Some(v.valid))

\* neo_driver.session() on the process's driver.  On a driver that was
\* closed the outcome depends on the neo4j version installed (none is
\* pinned): 5.x warns and opens new connections, 6.x raises DriverError.
DriverUses(driver) ==
    IF driver = "open" THEN {"works"} ELSE {"works", "DriverError"}

\* search_rag_plus_graph hands over keys it has built itself:
\* {"sha256": str(sha), "ord": int(ord_val)}
HandlerKeys(hs) ==
    [i \in 1..Len(GraphKeys(hs)) |->
        [sha256 |-> Some(GraphKeys(hs)[i].sha256),
         ord |-> Some(PyOrd("int", GraphKeys(hs)[i].ord))]]

\* A handler that keeps what the first key would have given.
GraphOrPartial(r) ==
    IF r.kind = "return" THEN r.value
    ELSE IF r.sent = None THEN EmptyGraph
    ELSE GraphElements(GraphCypher(SubSeq(r.sent[1], 1, 1), MaxEntPerChunk, "fwd"))

\* try: graph = build_graph_for_chunks(...)
\* except Exception: graph = {"nodes": [], "edges": []}
GraphOrEmpty(r) == IF r.kind = "return" THEN r.value ELSE EmptyGraph

\* ================================================================ state
VARIABLES
    pc,            \* position of the request in its handler
    req,           \* the request: entry point and parameters
    conn,          \* the Postgres connection: "none", "open", "closed"
    rows,          \* rows fetched by the nearest-neighbour query
    docs_tmp,      \* groups by document
    docs_list,     \* document entries, then ranked and cut to top_docs
    meta_map,      \* metadata of the selected documents
    ent_rows,      \* rows fetched by the entity join
    entities_map,  \* document -> entities
    ret,           \* how the ranking function ended: return value or exception
    rag,           \* search_rag_plus_graph: the ranking result it goes on with
    hits,          \* search_rag_plus_graph: the flattened hits
    graph,         \* search_rag_plus_graph: the graph
    resp,          \* the HTTP response
    fault,         \* the collaborator call that failed during the request
    g_pc,          \* direct calls of build_graph_for_chunks: position
    g_call,        \* ... the arguments and what the graph source does
    g_first,       \* ... how the first call ended
    g_second,      \* ... how the second call, with the same arguments, ended
    store,         \* what the Postgres tables hold: "schema" or "loose"
    neo_driver,    \* main.neo_driver, the process's one driver: "open", "closed"
    c_pc,          \* chunk_text: position
    c_arg,         \* ... its arguments text, size, overlap
    c_i,           \* ... the loop index i
    c_chunks,      \* ... the list chunks
    i_pc,          \* /ingest, per request: position
    i_up,          \* ... the upload: filename and bytes
    i_fd,          \* ... the inode its open file handle writes to
    i_conn,        \* ... its two Postgres connections
    i_out,         \* ... how ingest_pdf_with_graph ended
    i_read,        \* ... the bytes ingestion read from temp_path
    i_resp,        \* ... the HTTP response
    fs,            \* /tmp: filename -> file
    document_tbl,  \* the document table: sha256 -> row
    chunk_tbl,     \* the chunk table: rows (document_id, ord)
    neo_chunks     \* the (:Chunk {id}) nodes /ingest has written

rvars == <<pc, req, conn, rows, docs_tmp, docs_list, meta_map, ent_rows,
           entities_map, ret, rag, hits, graph, resp, fault>>
gvars == <<g_pc, g_call, g_first, g_second>>
pvars == <<store, neo_driver>>
cvars == <<c_pc, c_arg, c_i, c_chunks>>
ivars == <<i_pc, i_up, i_fd, i_conn, i_out, i_read, i_resp, fs, document_tbl,
           chunk_tbl, neo_chunks>>
xvars == <<cvars, ivars>>
vars == <<rvars, gvars, pvars, xvars>>

NoReq == [ep |-> "none"]
Pending == [kind |-> "none"]
NoCall == [chunk_keys |-> <<>>]

\* No request is being served.
RequestIdle ==
    /\ pc = "idle"
    /\ req = NoReq
    /\ conn = "none"
    /\ rows = <<>>
    /\ docs_tmp = <<>>
    /\ docs_list = <<>>
    /\ meta_map = EmptyMap
    /\ ent_rows = <<>>
    /\ entities_map = EmptyMap
    /\ ret = Pending
    /\ rag = Pending
    /\ hits = <<>>
    /\ graph = EmptyGraph
    /\ resp = Pending
    /\ fault = "none"

\* build_graph_for_chunks is not being called directly.
GraphIdle ==
    /\ g_pc = "off"
    /\ g_call = NoCall
    /\ g_first = Pending
    /\ g_second = Pending

\* A process that has just started: the driver was created at import.
ProcessFresh == neo_driver = "open"

\* chunk_text is not running.
ChunkIdle ==
    /\ c_pc = "off"
    /\ c_arg = [text |-> <<>>, size |-> 1, overlap |-> 0]
    /\ c_i = 0
    /\ c_chunks = <<>>

\* No /ingest request is being served; /tmp and the tables are empty.
Uploaders == {1, 2}
Filenames == {"a.pdf", "b.pdf"}
NoFile == [ino |-> 0, data |-> 0]
NoUpload == [filename |-> "a.pdf", bytes |-> 0]
NoConns == [outer |-> "none", inner |-> "none"]
IngestIdle ==
    /\ i_pc = [r \in Uploaders |-> "idle"]
    /\ i_up = [r \in Uploaders |-> NoUpload]
    /\ i_fd = [r \in Uploaders |-> 0]
    /\ i_conn = [r \in Uploaders |-> NoConns]
    /\ i_out = [r \in Uploaders |-> Pending]
    /\ i_read = [r \in Uploaders |-> 0]
    /\ i_resp = [r \in Uploaders |-> Pending]
    /\ fs = [n \in Filenames |-> NoFile]
    /\ document_tbl = <<>>
    /\ chunk_tbl = {}
    /\ neo_chunks = {}

Init ==
    /\ RequestIdle
    /\ GraphIdle
    /\ ProcessFresh
    /\ ChunkIdle
    /\ IngestIdle
    /\ store = "schema"

\* The parameter values the entry points accept.  GET /search_rag validates
\* top_docs >= 1 and top_chunks >= 1; SearchBody.top_k is any int.
GetTopDocs == TopDocsGe..MaxTopDocs
GetTopChunks == TopChunksGe..MaxTopChunks
PostTopK == (0 - NegTopK)..MaxTopDocs

\* GET /search_rag?q=..&top_docs=..&top_chunks=..&include_entities=..
StartGetSearchRag(td, tc, ie) ==
    /\ UNCHANGED <<gvars, pvars, xvars>>
    /\ pc = "idle"
    /\ req' = [ep |-> GET_RAG, top_docs |-> td, top_chunks |-> tc,
               include_entities |-> ie, with_graph |-> FALSE]
    /\ pc' = "connect"
    /\ UNCHANGED <<conn, rows, docs_tmp, docs_list, meta_map, ent_rows,
                   entities_map, ret, rag, hits, graph, resp, fault>>

\* POST /search_rag_plus_graph {q, top_k, with_graph}: calls
\* utils.search_rag(top_docs=top_k, top_chunks=3, include_entities=True).
StartSearchRagPlusGraph(k, wg) ==
    /\ UNCHANGED <<gvars, pvars, xvars>>
    /\ pc = "idle"
    /\ req' = [ep |-> POST_PLUS, top_docs |-> k, top_chunks |-> PlusGraphTopChunks,
               include_entities |-> TRUE, with_graph |-> wg]
    /\ pc' = "connect"
    /\ UNCHANGED <<conn, rows, docs_tmp, docs_list, meta_map, ent_rows,
                   entities_map, ret, rag, hits, graph, resp, fault>>

\* The ranking function ends: the finally block closes an open connection.
Closed(c) == IF c = "open" THEN "closed" ELSE c
Raised(exc) == [kind |-> "raise", exc |-> exc]
Returned(results_) ==
    [kind |-> "return",
     value |-> [top_docs |-> req.top_docs, results |-> results_]]

\* conn = get_conn(); cur = conn.cursor()
Connect ==
    /\ UNCHANGED <<gvars, pvars, xvars>>
    /\ pc = "connect"
    /\ \/ /\ conn' = "open"
          /\ pc' = "fetch"
          /\ UNCHANGED <<ret, fault>>
       \/ /\ conn' = conn
          /\ pc' = "ret"
          /\ ret' = Raised("OperationalError")
          /\ fault' = "get_conn"
    /\ UNCHANGED <<req, rows, docs_tmp, docs_list, meta_map, ent_rows,
                   entities_map, rag, hits, graph, resp>>

\* 2) cur.execute(nearest-neighbour query); rows = cur.fetchall();
\* if not rows: utils returns an empty result, the GET handler raises 404.
FetchRows ==
    /\ UNCHANGED <<gvars, pvars, xvars>>
    /\ pc = "fetch"
    /\ \/ \E rs \in StoredPools(store) :
            /\ rows' = rs
            /\ fault' = fault
            /\ IF rs # <<>>
               THEN pc' = "aggregate" /\ ret' = ret /\ conn' = conn
               ELSE /\ pc' = "ret"
                    /\ conn' = Closed(conn)
                    /\ ret' = IF req.ep = GET_RAG
                              THEN Raised("HTTPException404")
                              ELSE Returned(<<>>)
       \/ /\ rows' = rows
          /\ pc' = "ret"
          /\ conn' = Closed(conn)
          /\ ret' = Raised("OperationalError")
          /\ fault' = "chunk_query"
    /\ UNCHANGED <<req, docs_tmp, docs_list, meta_map, ent_rows,
                   entities_map, rag, hits, graph, resp>>

\* 3) aggregate chunks by document
Aggregate ==
    /\ UNCHANGED <<gvars, pvars, xvars>>
    /\ pc = "aggregate"
    /\ docs_tmp' = GroupByDocument(rows, req.ep)
    /\ pc' = "top_chunks"
    /\ UNCHANGED <<req, conn, rows, docs_list, meta_map, ent_rows,
                   entities_map, ret, rag, hits, graph, resp, fault>>

\* 4) keep top_chunks per document and compute the average distance
TopChunks ==
    /\ UNCHANGED <<gvars, pvars, xvars>>
    /\ pc = "top_chunks"
    /\ IF SomeGroupEmpty(docs_tmp, req.top_chunks)
       THEN /\ pc' = "ret"
            /\ conn' = Closed(conn)
            /\ ret' = Raised("ZeroDivisionError")
            /\ docs_list' = docs_list
       ELSE /\ pc' = "sort_docs"
            /\ docs_list' = DocsList(docs_tmp, req.top_chunks)
            /\ UNCHANGED <<conn, ret>>
    /\ UNCHANGED <<req, rows, docs_tmp, meta_map, ent_rows,
                   entities_map, rag, hits, graph, resp, fault>>

\* 5) sort by avg_distance and select top_docs
SortAndSelect ==
    /\ UNCHANGED <<gvars, pvars, xvars>>
    /\ pc = "sort_docs"
    /\ docs_list' = SelectTopDocs(docs_list, req.top_docs)
    /\ pc' = "meta"
    /\ UNCHANGED <<req, conn, rows, docs_tmp, meta_map, ent_rows,
                   entities_map, ret, rag, hits, graph, resp, fault>>

\* 6) fetch document metadata
FetchMeta ==
    /\ UNCHANGED <<gvars, pvars, xvars>>
    /\ pc = "meta"
    /\ \/ /\ meta_map' = StoredMetaMap(store,
                          [k \in 1..Len(docs_list) |-> docs_list[k].document_id])
          /\ pc' = "entities"
          /\ UNCHANGED <<conn, ret, fault>>
       \/ /\ meta_map' = meta_map
          /\ pc' = "ret"
          /\ conn' = Closed(conn)
          /\ ret' = Raised("OperationalError")
          /\ fault' = "document_query"
    /\ UNCHANGED <<req, rows, docs_tmp, docs_list, ent_rows,
                   entities_map, rag, hits, graph, resp>>

\* 7) fetch entities if requested
FetchEntities ==
    /\ UNCHANGED <<gvars, pvars, xvars>>
    /\ pc = "entities"
    /\ \/ /\ ~(req.include_entities /\ SelChunkIds(docs_list) # <<>>)
          /\ pc' = "results"
          /\ UNCHANGED <<conn, ret, ent_rows, entities_map, fault>>
       \/ /\ req.include_entities /\ SelChunkIds(docs_list) # <<>>
          /\ \E er \in EntRowSeqs(SelChunkIds(docs_list)) :
                /\ ent_rows' = er
                /\ entities_map' = EntitiesMap(docs_list, er)
          /\ pc' = "results"
          /\ UNCHANGED <<conn, ret, fault>>
       \/ /\ req.include_entities /\ SelChunkIds(docs_list) # <<>>
          /\ pc' = "ret"
          /\ conn' = Closed(conn)
          /\ ret' = Raised("OperationalError")
          /\ fault' = "entity_query"
          /\ UNCHANGED <<ent_rows, entities_map>>
    /\ UNCHANGED <<req, rows, docs_tmp, docs_list, meta_map,
                   rag, hits, graph, resp>>

\* 8) build the final results and return; finally: cur.close(); conn.close()
Results ==
    /\ UNCHANGED <<gvars, pvars, xvars>>
    /\ pc = "results"
    /\ ret' = Returned(BuildResults(docs_list, meta_map, entities_map))
    /\ conn' = Closed(conn)
    /\ pc' = "ret"
    /\ UNCHANGED <<req, rows, docs_tmp, docs_list, meta_map, ent_rows,
                   entities_map, rag, hits, graph, resp, fault>>

\* GET /search_rag: the framework answers with the returned dict, with the
\* status of a raised HTTPException, or with 500 for any other exception.
GetResponse(r) ==
    IF r.kind = "return" THEN [status |-> 200, body |-> r.value]
    ELSE IF r.exc = "HTTPException404"
    THEN [status |-> 404, body |-> [detail |-> "No chunks found in corpus"]]
    ELSE [status |-> 500, body |-> [detail |-> "Internal Server Error"]]

RespondGet ==
    /\ UNCHANGED <<gvars, pvars, xvars>>
    /\ pc = "ret"
    /\ req.ep = GET_RAG
    /\ resp' = GetResponse(ret)
    /\ pc' = "done"
    /\ UNCHANGED <<req, conn, rows, docs_tmp, docs_list, meta_map, ent_rows,
                   entities_map, ret, rag, hits, graph, fault>>

\* search_rag_plus_graph: try: rag = search_rag(...)
\* except Exception: rag = {"results": []}
RagOf(r) == IF r.kind = "return" THEN r.value ELSE [results |-> <<>>]

\* ... then flatten the results to hits, sorted by score, top_k * 3 of them
CatchAndFlatten ==
    /\ UNCHANGED <<gvars, pvars, xvars>>
    /\ pc = "ret"
    /\ req.ep = POST_PLUS
    /\ rag' = RagOf(ret)
    /\ hits' = FlattenHits(RagOf(ret).results, req.top_docs)
    /\ pc' = "graph"
    /\ UNCHANGED <<req, conn, rows, docs_tmp, docs_list, meta_map, ent_rows,
                   entities_map, ret, graph, resp, fault>>

\* if body.with_graph and hits: keys = [...]; if keys: the graph is what
\* build_graph_for_chunks(keys, max_ent_per_chunk=4, neo_driver=neo_driver)
\* returns, and the empty graph when the call raises.
BuildGraph ==
    /\ UNCHANGED <<gvars, pvars, xvars>>
    /\ pc = "graph"
    /\ \/ /\ ~(req.with_graph /\ hits # <<>> /\ GraphKeys(hits) # <<>>)
          /\ graph' = EmptyGraph
          /\ fault' = fault
       \/ /\ req.with_graph /\ hits # <<>> /\ GraphKeys(hits) # <<>>
          /\ \E src \in GraphSources, use \in DriverUses(neo_driver) :
                LET r == IF use = "works"
                         THEN BuildGraphForChunks(HandlerKeys(hits), MaxEntPerChunk,
                                                  TRUE, src)
                         ELSE GraphRaise(use, None)
                IN  /\ graph' = GraphOrEmpty(r)
                    /\ fault' = IF use # "works" THEN "driver_closed"
                                ELSE IF r.kind = "raise" THEN "graph_query"
                                ELSE fault
    /\ pc' = "respond"
    /\ UNCHANGED <<req, conn, rows, docs_tmp, docs_list, meta_map, ent_rows,
                   entities_map, ret, rag, hits, resp>>

\* return {"hits": hits, "graph": graph}
PlusGraphResponse(hs, g) == [status |-> 200, body |-> [hits |-> hs, graph |-> g]]

RespondPlusGraph ==
    /\ UNCHANGED <<gvars, pvars, xvars>>
    /\ pc = "respond"
    /\ resp' = PlusGraphResponse(hits, graph)
    /\ pc' = "done"
    /\ UNCHANGED <<req, conn, rows, docs_tmp, docs_list, meta_map, ent_rows,
                   entities_map, ret, rag, hits, graph, fault>>

Next ==
    \/ \E td \in GetTopDocs, tc \in GetTopChunks, ie \in BOOLEAN :
          StartGetSearchRag(td, tc, ie)
    \/ \E k \in PostTopK, wg \in BOOLEAN : StartSearchRagPlusGraph(k, wg)
    \/ Connect
    \/ FetchRows
    \/ Aggregate
    \/ TopChunks
    \/ SortAndSelect
    \/ FetchMeta
    \/ FetchEntities
    \/ Results
    \/ RespondGet
    \/ CatchAndFlatten
    \/ BuildGraph
    \/ RespondPlusGraph

Spec == Init /\ [][Next]_vars

\* The same requests over the loose store.
LooseInit ==
    /\ RequestIdle
    /\ GraphIdle
    /\ ProcessFresh
    /\ ChunkIdle
    /\ IngestIdle
    /\ store = "loose"

LooseSpec == LooseInit /\ [][Next]_vars

\* ------------------------------------------------ GET /search_docs
GET_DOCS == "GET /search_docs"

\* top_k_docs: int = 5, top_k_chunks: int = 3: any int is accepted.
DocsTopKDocs == 0..MaxTopDocs
DocsTopKChunks == (0 - NegTopK)..MaxTopChunks

\* doc_map[doc_id] = {"chunks": [{chunk_id, text, distance}...], "score_sum"}
DocMapChunk(row) ==
    [chunk_id |-> row.chunk_id, text |-> row.text, distance |-> row.distance]
DocMapAdd(doc_map, row) ==
    IF GroupIndex(doc_map, row.document_id) = {}
    THEN Append(doc_map, [document_id |-> row.document_id,
                          chunks |-> <<DocMapChunk(row)>>,
                          score_sum |-> row.distance])
    ELSE LET k == CHOOSE k \in GroupIndex(doc_map, row.document_id) : TRUE
         IN  [doc_map EXCEPT ![k].chunks = Append(@, DocMapChunk(row)),
                             ![k].score_sum = @ + row.distance]

RECURSIVE DocMap(_)
DocMap(rs) ==
    IF rs = <<>> THEN <<>>
    ELSE DocMapAdd(DocMap(SubSeq(rs, 1, Len(rs) - 1)), rs[Len(rs)])

\* MATCH (c:Chunk {document_id: $doc_id})-[:MENTIONS]->(e:Entity): no
\* ingestion path of the repository sets document_id on a Chunk node.
SearchDocsEntities(document_id) == <<>>

SearchDocsEntry(d) ==
    [document_id |-> d.document_id, avg_distance |-> d.avg_distance,
     chunks |-> d.chunks, entities |-> SearchDocsEntities(d.document_id)]

\* What the handler does after conn = get_conn() succeeded, as the
\* outcome of its try block.
SearchDocsBody(rs, top_k_docs, top_k_chunks, use) ==
    LET doc_map == DocMap(rs)
        docs_sorted == SelectTopDocs(DocsList(doc_map, top_k_chunks), top_k_docs)
    IN  IF SomeGroupEmpty(doc_map, top_k_chunks) THEN Raised("ZeroDivisionError")
        ELSE IF use # "works" THEN Raised(use)
        ELSE [kind |-> "return",
              value |-> [top_docs |-> top_k_docs,
                         results |-> [k \in 1..Len(docs_sorted) |->
                                         SearchDocsEntry(docs_sorted[k])]]]

\* GET /search_docs?q=..&top_k_docs=..&top_k_chunks=..: the whole handler
\* (it has no await); its finally closes the connection and the driver.
SearchDocs(top_k_docs, top_k_chunks) ==
    /\ UNCHANGED <<gvars, store, xvars>>
    /\ pc = "idle"
    /\ req' = [ep |-> GET_DOCS, top_docs |-> top_k_docs, top_chunks |-> top_k_chunks,
               include_entities |-> TRUE, with_graph |-> FALSE]
    /\ pc' = "done"
    /\ \/ /\ ret' = Raised("OperationalError")
          /\ fault' = "get_conn"
          /\ UNCHANGED <<conn, rows, docs_tmp, docs_list, neo_driver>>
       \/ \E rs \in StoredPools(store), use \in DriverUses(neo_driver) :
             LET r == SearchDocsBody(rs, top_k_docs, top_k_chunks, use)
             IN  /\ rows' = rs
                 /\ docs_tmp' = DocMap(rs)
                 /\ docs_list' = IF r.kind = "return" THEN r.value.results ELSE docs_list
                 /\ ret' = r
                 /\ fault' = IF r.kind = "raise" /\ r.exc = use THEN "driver_closed"
                             ELSE fault
                 /\ conn' = "closed"
                 /\ neo_driver' = "closed"
    /\ resp' = GetResponse(ret')
    /\ UNCHANGED <<meta_map, ent_rows, entities_map, rag, hits, graph>>

\* The server takes the next request: the locals of the last one are gone.
NextRequest ==
    /\ UNCHANGED <<gvars, pvars, xvars>>
    /\ pc = "done"
    /\ pc' = "idle"
    /\ req' = NoReq
    /\ conn' = "none"
    /\ rows' = <<>>
    /\ docs_tmp' = <<>>
    /\ docs_list' = <<>>
    /\ meta_map' = EmptyMap
    /\ ent_rows' = <<>>
    /\ entities_map' = EmptyMap
    /\ ret' = Pending
    /\ rag' = Pending
    /\ hits' = <<>>
    /\ graph' = EmptyGraph
    /\ resp' = Pending
    /\ fault' = "none"

ServerNext ==
    \/ Next
    \/ \E kd \in DocsTopKDocs, kc \in DocsTopKChunks : SearchDocs(kd, kc)
    \/ NextRequest

\* One process serving requests one after another.
ServerSpec == Init /\ [][ServerNext]_vars

\* ------------------------------------------------------- POST /ingest
\* An upload is a filename and bytes: 0 for bytes fitz cannot open or that
\* hold no text, b >= 1 for a PDF with text number b.
MaxTexts == 2
UploadBytes == 0..MaxTexts
Uploads == [filename : Filenames, bytes : UploadBytes]
Inodes == 1..3

\* sha = hashlib.sha256(text.encode()).hexdigest()
ShaOfText(b) == 600 + b
\* document.id is gen_random_uuid(): one per row, and a sha256 has one row.
DocumentIdOf(sha) == sha + 100
\* chunk_text(text) with the defaults: text b splits into b chunks.
ChunksOfText(b) == [i \in 1..b |-> <<"text", b, i - 1>>]
TempPath(filename) == <<"/tmp", filename>>

\* What the environment does to one ingestion.
IngestFaults == {"none", "outer_connect", "commit"}

\* INSERT INTO document ... ON CONFLICT (sha256) DO UPDATE SET title = ...
UpsertDocument(docs, sha, title) ==
    IF sha \in DOMAIN docs THEN [docs EXCEPT ![sha].title = title]
    ELSE docs @@ (sha :> [id |-> DocumentIdOf(sha), title |-> title])

\* INSERT INTO chunk ... ON CONFLICT (document_id, ord) DO NOTHING
\* RETURNING id: the rows that were inserted, in the order of the chunks.
RECURSIVE InsertedChunks(_, _, _)
InsertedChunks(chs, document_id, chunks) ==
    IF chunks = <<>> THEN <<>>
    ELSE LET rest == InsertedChunks(chs, document_id, SubSeq(chunks, 1, Len(chunks) - 1))
             i == Len(chunks) - 1
         IN  IF [document_id |-> document_id, ord |-> i] \in chs THEN rest
             ELSE Append(rest, [chunk_id |-> <<document_id, i>>, text |-> chunks[i + 1]])

\* ingest_pdf(path): data is what is at path, 0 when fitz.open fails or
\* there is no text.  inner is the state of its connection on exit.
IngestPdf(data, path, docs, chs, flt) ==
    IF data = 0
    THEN [kind |-> "return", document_id |-> None, chunks |-> <<>>,
          inner |-> "none", docs |-> docs, chs |-> chs]
    ELSE LET sha == ShaOfText(data)
             upserted == UpsertDocument(docs, sha, path)
             document_id == upserted[sha].id
             inserted == InsertedChunks(chs, document_id, ChunksOfText(data))
         IN  IF flt = "commit"
             THEN [kind |-> "raise", document_id |-> None, chunks |-> <<>>,
                   inner |-> "open", docs |-> docs, chs |-> chs]
             ELSE [kind |-> "return", document_id |-> Some(document_id),
                   chunks |-> inserted, inner |-> "closed", docs |-> upserted,
                   chs |-> chs \cup {[document_id |-> document_id, ord |-> i - 1] :
                                        i \in 1..Len(ChunksOfText(data))}]

\* ingest_pdf_with_graph(path, driver)
IngestPdfWithGraph(data, path, docs, chs, nodes, flt, use) ==
    IF flt = "outer_connect"
    THEN [kind |-> "return", value |-> None, outer |-> "none", inner |-> "none",
          docs |-> docs, chs |-> chs, nodes |-> nodes, fault |-> flt, use |-> use]
    ELSE LET p == IngestPdf(data, path, docs, chs, flt)
         IN  IF p.kind = "raise" \/ p.document_id = None \/ p.chunks = <<>>
             THEN [kind |-> "return", value |-> None, outer |-> "closed",
                   inner |-> p.inner, docs |-> p.docs, chs |-> p.chs,
                   nodes |-> nodes, fault |-> flt, use |-> use]
             ELSE IF use # "works"
             THEN [kind |-> "raise", value |-> None, outer |-> "open",
                   inner |-> p.inner, docs |-> p.docs, chs |-> p.chs,
                   nodes |-> nodes, fault |-> flt, use |-> use]
             ELSE [kind |-> "return", value |-> p.document_id, outer |-> "closed",
                   inner |-> p.inner, docs |-> p.docs, chs |-> p.chs,
                   nodes |-> nodes \cup {<<p.document_id[1], i - 1>> :
                                            i \in 1..Len(p.chunks)},
                   fault |-> flt, use |-> use]

\* ingest_file: a None raises HTTPException(400) inside the try, and
\* `except Exception` turns whatever was raised into HTTPException(500).
IngestResponse(out, filename) ==
    IF out.kind = "return" /\ out.value # None
    THEN [status |-> 200,
          body |-> [status |-> "success", document_id |-> out.value[1],
                    filename |-> filename]]
    ELSE [status |-> 500, body |-> [detail |-> "Ingestion error"]]

\* temp_path = f"/tmp/{file.filename}"; open(temp_path, "wb") creates the
\* file or truncates the one that is there; then the handler awaits
\* file.read().
OpenTemp(r, up) ==
    /\ UNCHANGED <<rvars, gvars, pvars, cvars>>
    /\ i_pc[r] = "idle"
    /\ i_up' = [i_up EXCEPT ![r] = up]
    /\ LET held == {fs[n].ino : n \in Filenames} \cup {i_fd[q] : q \in Uploaders}
           ino == IF fs[up.filename] # NoFile THEN fs[up.filename].ino
                  ELSE CHOOSE x \in Inodes \ held :
                           \A y \in Inodes \ held : x <= y
       IN  /\ fs' = [fs EXCEPT ![up.filename] = [ino |-> ino, data |-> 0]]
           /\ i_fd' = [i_fd EXCEPT ![r] = ino]
    /\ i_pc' = [i_pc EXCEPT ![r] = "opened"]
    /\ UNCHANGED <<i_conn, i_out, i_read, i_resp, document_tbl, chunk_tbl,
                   neo_chunks>>

\* The rest of the handler runs without another await: f.write(...), the
\* ingestion, the response, and the finally that removes temp_path and
\* closes the driver.
WriteAndIngest(r) ==
    /\ UNCHANGED <<rvars, gvars, store, cvars>>
    /\ i_pc[r] = "opened"
    /\ \E flt \in IngestFaults, use \in DriverUses(neo_driver) :
          LET name == i_up[r].filename
              data == IF fs[name].ino = i_fd[r] THEN i_up[r].bytes ELSE fs[name].data
              out == IngestPdfWithGraph(data, TempPath(name), document_tbl,
                                        chunk_tbl, neo_chunks, flt, use)
          IN  /\ i_read' = [i_read EXCEPT ![r] = data]
              /\ i_out' = [i_out EXCEPT ![r] =
                              [kind |-> out.kind, value |-> out.value,
                               fault |-> out.fault, use |-> out.use]]
              /\ i_conn' = [i_conn EXCEPT ![r] =
                               [outer |-> out.outer, inner |-> out.inner]]
              /\ document_tbl' = out.docs
              /\ chunk_tbl' = out.chs
              /\ neo_chunks' = out.nodes
              /\ i_resp' = [i_resp EXCEPT ![r] = IngestResponse(out, name)]
              /\ fs' = [fs EXCEPT ![name] = NoFile]
    /\ neo_driver' = "closed"
    /\ i_fd' = [i_fd EXCEPT ![r] = 0]
    /\ i_pc' = [i_pc EXCEPT ![r] = "done"]
    /\ UNCHANGED i_up

\* The response is sent; the slot serves the next upload.
IngestAnswered(r) ==
    /\ UNCHANGED <<rvars, gvars, pvars, cvars>>
    /\ i_pc[r] = "done"
    /\ i_pc' = [i_pc EXCEPT ![r] = "idle"]
    /\ i_up' = [i_up EXCEPT ![r] = NoUpload]
    /\ i_conn' = [i_conn EXCEPT ![r] = NoConns]
    /\ i_out' = [i_out EXCEPT ![r] = Pending]
    /\ i_read' = [i_read EXCEPT ![r] = 0]
    /\ i_resp' = [i_resp EXCEPT ![r] = Pending]
    /\ UNCHANGED <<i_fd, fs, document_tbl, chunk_tbl, neo_chunks>>

IngestNext ==
    \/ \E r \in Uploaders, up \in Uploads : OpenTemp(r, up)
    \/ \E r \in Uploaders : WriteAndIngest(r)
    \/ \E r \in Uploaders : IngestAnswered(r)

\* One process serving /ingest requests, two of them at a time.
IngestSpec == Init /\ [][IngestNext]_vars

\* --------------------------------------- chunk_text(text, size, overlap)
\* A text is a string over a blank and two letters.
MaxTextLen == 5
MaxSize == 2
MaxOverlap == 2
NegArg == 1
Chars == {" ", "a", "b"}
Texts == UNION {[1..n -> Chars] : n \in 0..MaxTextLen}
SizeArgs == (0 - NegArg)..MaxSize
OverlapArgs == (0 - NegArg)..MaxOverlap

\* text.split(): the maximal runs of non-blank characters.
RECURSIVE Split(_)
Split(text) ==
    IF text = <<>> THEN <<>>
    ELSE IF Head(text) = " " THEN Split(Tail(text))
    ELSE IF Len(text) >= 2 /\ text[2] # " "
    THEN LET rest == Split(Tail(text))
         IN  <<(<<Head(text)>> \o rest[1])>> \o Tail(rest)
    ELSE <<(<<Head(text)>>)>> \o Split(Tail(text))

\* " ".join(ws)
RECURSIVE Join(_)
Join(ws) ==
    IF ws = <<>> THEN <<>>
    ELSE IF Len(ws) = 1 THEN ws[1]
    ELSE ws[1] \o <<" ">> \o Join(Tail(ws))

\* s.strip()
RECURSIVE Strip(_)
Strip(s) ==
    IF s = <<>> THEN <<>>
    ELSE IF Head(s) = " " THEN Strip(Tail(s))
    ELSE IF s[Len(s)] = " " THEN Strip(SubSeq(s, 1, Len(s) - 1))
    ELSE s

\* s[lo:hi] for lo >= 0: a negative hi counts from the end.
PySlice(s, lo, hi) ==
    LET stop == IF hi < 0 THEN Max(0, Len(s) + hi) ELSE Min(hi, Len(s))
    IN  SubSeq(s, Min(lo, Len(s)) + 1, stop)

\* A step that forgets the overlap.
ChunkStepIgnoresOverlap(size, overlap) == Max(1, size)
\* step = max(1, size - overlap)
ChunkStep(size, overlap) == Max(1, size - overlap)

ChunkInit ==
    /\ RequestIdle
    /\ GraphIdle
    /\ ProcessFresh
    /\ IngestIdle
    /\ store = "schema"
    /\ c_pc = "called"
    /\ c_arg \in [text : Texts, size : SizeArgs, overlap : OverlapArgs]
    /\ c_i = 0
    /\ c_chunks = <<>>

\* words = text.split(); if not words: return []; chunks = []
ChunkBegin ==
    /\ c_pc = "called"
    /\ c_pc' = IF Split(c_arg.text) = <<>> THEN "returned" ELSE "loop"
    /\ UNCHANGED <<c_arg, c_i, c_chunks, rvars, gvars, pvars, ivars>>

\* for i in range(0, len(words), step): one pass of the body
ChunkLoop ==
    /\ c_pc = "loop"
    /\ c_i < Len(Split(c_arg.text))
    /\ LET chunk == Strip(Join(PySlice(Split(c_arg.text), c_i, c_i + c_arg.size)))
       IN  c_chunks' = IF chunk # <<>> THEN Append(c_chunks, chunk) ELSE c_chunks
    /\ c_i' = c_i + ChunkStep(c_arg.size, c_arg.overlap)
    /\ UNCHANGED <<c_pc, c_arg, rvars, gvars, pvars, ivars>>

\* the range is exhausted: return chunks
ChunkReturn ==
    /\ c_pc = "loop"
    /\ c_i >= Len(Split(c_arg.text))
    /\ c_pc' = "returned"
    /\ UNCHANGED <<c_arg, c_i, c_chunks, rvars, gvars, pvars, ivars>>

ChunkNext ==
    \/ ChunkBegin
    \/ ChunkLoop
    \/ ChunkReturn

ChunkSpec == ChunkInit /\ [][ChunkNext]_vars

\* ------------------------------------ build_graph_for_chunks called directly
\* The function is called with any list of key dicts, with or without a
\* driver, and then once more with the same arguments; the store is fixed.
MaxKeys == 2
ShaFields == {None, Some(EmptyStr), Some(201), Some(202)}
OrdFields ==
    {None, Some(PyOrd("int", 0)), Some(PyOrd("int", 1)), Some(PyOrd("digits", 1)),
     Some(PyOrd("word", 0)), Some(PyOrd("inf", 0))}
ChunkKeyDicts == [sha256 : ShaFields, ord : OrdFields]
ChunkKeyLists == UNION {[1..n -> ChunkKeyDicts] : n \in 0..MaxKeys}
EntLimits == {1, MaxEntPerChunk}

GraphInit ==
    /\ RequestIdle
    /\ ProcessFresh
    /\ ChunkIdle
    /\ IngestIdle
    /\ store = "schema"
    /\ g_pc = "call"
    /\ g_call \in [chunk_keys : ChunkKeyLists, max_ent_per_chunk : EntLimits,
                   neo_driver : BOOLEAN]
    /\ g_first = Pending
    /\ g_second = Pending

FirstCall ==
    /\ g_pc = "call"
    /\ \E src \in GraphSources :
          g_first' = BuildGraphForChunks(g_call.chunk_keys, g_call.max_ent_per_chunk,
                                         g_call.neo_driver, src)
    /\ g_pc' = "called"
    /\ UNCHANGED <<g_call, g_second, rvars, pvars, xvars>>

SecondCall ==
    /\ g_pc = "called"
    /\ \E src \in GraphSources :
          g_second' = BuildGraphForChunks(g_call.chunk_keys, g_call.max_ent_per_chunk,
                                          g_call.neo_driver, src)
    /\ g_pc' = "again"
    /\ UNCHANGED <<g_call, g_first, rvars, pvars, xvars>>

GraphNext ==
    \/ FirstCall
    \/ SecondCall

GraphSpec == GraphInit /\ [][GraphNext]_vars

\* =============================================================== properties
RankingReturned == ret.kind = "return"
RankedResults == ret.value.results
PoolDocs == {rows[i].document_id : i \in 1..Len(rows)}
PoolHitsOf(d) == {i \in 1..Len(rows) : rows[i].document_id = d}
FirstRowOf(d) == CHOOSE i \in PoolHitsOf(d) : \A j \in PoolHitsOf(d) : i <= j
Grouped == rows # <<>> /\ pc # "aggregate"
GroupSlots ==
    UNION {{<<k, j>> : j \in 1..Len(docs_tmp[k].chunks)} : k \in 1..Len(docs_tmp)}
SlotsOfRow(i) ==
    {s \in GroupSlots : docs_tmp[s[1]].chunks[s[2]].chunk_id = rows[i].chunk_id}

\* C1: grouping is a partition of the pool.  Once the pool is grouped, every
\* document_id of the pool has exactly one group, no group belongs to another
\* document, every row of the pool sits in exactly one slot of the groups,
\* that slot is in the group of the row's own document and carries the row's
\* distance, and the groups hold nothing but the rows.
C1_GroupingIsPartition ==
    Grouped =>
      /\ \A d \in PoolDocs :
            Cardinality({k \in 1..Len(docs_tmp) : docs_tmp[k].document_id = d}) = 1
      /\ \A k \in 1..Len(docs_tmp) : docs_tmp[k].document_id \in PoolDocs
      /\ \A i \in 1..Len(rows) :
            /\ Cardinality(SlotsOfRow(i)) = 1
            /\ \A s \in SlotsOfRow(i) :
                  /\ docs_tmp[s[1]].document_id = rows[i].document_id
                  /\ docs_tmp[s[1]].chunks[s[2]].distance = rows[i].distance
                  /\ docs_tmp[s[1]].chunks[s[2]].text = rows[i].text
      /\ Cardinality(GroupSlots) = Len(rows)

C1_Witness ==
    /\ Grouped
    /\ Len(docs_tmp) >= 2
    /\ \E k \in 1..Len(docs_tmp) : Len(docs_tmp[k].chunks) >= 2

RetainedIds(R) == {R.chunks[j].chunk_id : j \in 1..Len(R.chunks)}

\* C2: every returned document holds exactly min(top_chunks, n) of its n
\* pool hits, each once, in ascending distance order, and no hit of the
\* document that was left out is strictly closer than a retained one.
C2_TopChunksKept ==
    RankingReturned =>
      \A r \in 1..Len(RankedResults) :
         LET R == RankedResults[r]
             mine == PoolHitsOf(R.document_id)
         IN  /\ Len(R.chunks) = Min(req.top_chunks, Cardinality(mine))
             /\ \A j \in 1..(Len(R.chunks) - 1) :
                   R.chunks[j].distance <= R.chunks[j + 1].distance
             /\ Cardinality(RetainedIds(R)) = Len(R.chunks)
             /\ \A j \in 1..Len(R.chunks) :
                   \E i \in mine : /\ rows[i].chunk_id = R.chunks[j].chunk_id
                                   /\ rows[i].distance = R.chunks[j].distance
             /\ \A i \in mine :
                   rows[i].chunk_id \notin RetainedIds(R) =>
                      \A j \in 1..Len(R.chunks) :
                         ~(rows[i].distance < R.chunks[j].distance)

C2_Witness ==
    /\ RankingReturned
    /\ \E r \in 1..Len(RankedResults) :
          /\ Cardinality(PoolHitsOf(RankedResults[r].document_id)) > req.top_chunks
          /\ \E i \in PoolHitsOf(RankedResults[r].document_id) :
                /\ rows[i].chunk_id \notin RetainedIds(RankedResults[r])
                /\ rows[i].distance > RankedResults[r].chunks[1].distance
    /\ \E r \in 1..Len(RankedResults) :
          Cardinality(PoolHitsOf(RankedResults[r].document_id)) < req.top_chunks

SumOver(S) ==
    LET RECURSIVE Sum(_)
        Sum(T) == IF T = {} THEN 0
                  ELSE LET i == CHOOSE i \in T : TRUE
                       IN  rows[i].distance + Sum(T \ {i})
    IN  Sum(S)

\* C3: avg_distance of a returned document is the mean of the distances of
\* the chunks in its chunks list: avg_distance * len(chunks) = their sum.
C3_AvgOverRetained ==
    RankingReturned =>
      \A r \in 1..Len(RankedResults) :
         LET R == RankedResults[r]
         IN  /\ R.avg_distance.den > 0
             /\ R.avg_distance.num * Len(R.chunks) =
                   SumOver({i \in 1..Len(rows) : rows[i].chunk_id \in RetainedIds(R)})
                   * R.avg_distance.den

C3_Witness ==
    /\ RankingReturned
    /\ \E r \in 1..Len(RankedResults) :
          LET R == RankedResults[r]
              mine == PoolHitsOf(R.document_id)
          IN  /\ Cardinality(mine) > Len(R.chunks)
              /\ SumOver(mine) * Len(R.chunks) #
                    SumDistances(R.chunks) * Cardinality(mine)

\* C4: the returned documents are in non-decreasing avg_distance order.
C4_RankingMonotone ==
    RankingReturned =>
      \A a, b \in 1..Len(RankedResults) :
         a < b => AvgLeq(RankedResults[a].avg_distance, RankedResults[b].avg_distance)

C4_Witness ==
    /\ RankingReturned
    /\ Len(RankedResults) >= 2
    /\ AvgLess(RankedResults[1].avg_distance, RankedResults[2].avg_distance)
    /\ FirstRowOf(RankedResults[1].document_id) > FirstRowOf(RankedResults[2].document_id)

\* C5: the result holds exactly min(top_docs, number of distinct documents of
\* the pool) documents, and no document left out has a strictly smaller
\* avg_distance than a returned one.
C5_TruncatedToTopDocs ==
    RankingReturned =>
      /\ Len(RankedResults) = Min(req.top_docs, Cardinality(PoolDocs))
      /\ \A k \in 1..Len(docs_tmp) :
            (\A r \in 1..Len(RankedResults) :
                RankedResults[r].document_id # docs_tmp[k].document_id) =>
            \A r \in 1..Len(RankedResults) :
               ~AvgLess(DocEntry(docs_tmp[k], req.top_chunks).avg_distance,
                        RankedResults[r].avg_distance)

\* C6: when the nearest-neighbour lookup returns zero hits, the ranking
\* function returns an empty results list and raises nothing, and the GET
\* handler answers with it.
EmptyPoolFetched ==
    fault = "none" /\ rows = <<>> /\ pc \in {"ret", "graph", "respond", "done"}
C6_EmptyPoolIsResult ==
    EmptyPoolFetched =>
      /\ RankingReturned
      /\ RankedResults = <<>>
      /\ (req.ep = GET_RAG /\ pc = "done") =>
            (resp.status = 200 /\ resp.body.results = <<>>)

\* Positions <<chunk rank, row>> of the walk over a document's retained
\* chunks and each chunk's entity rows, and the (name, type) found there.
WalkPos(R) ==
    {p \in (1..Len(R.chunks)) \X (1..Len(ent_rows)) :
        ent_rows[p[2]][1] = R.chunks[p[1]].chunk_id}
PairAt(p) == <<ent_rows[p[2]][2], ent_rows[p[2]][3]>>
WalkBefore(p, q) == p[1] < q[1] \/ (p[1] = q[1] /\ p[2] < q[2])
FirstPos(R, pair) ==
    CHOOSE p \in WalkPos(R) :
       PairAt(p) = pair /\ \A q \in WalkPos(R) : PairAt(q) = pair => ~WalkBefore(q, p)
PairOf(e) == <<e.name, e.type>>

\* C7: the entities of a returned document hold no (name, type) twice, hold
\* exactly the pairs met on the walk, and list them in the order of their
\* first appearance on the walk.
C7_EntitiesFirstAppearance ==
    RankingReturned =>
      \A r \in 1..Len(RankedResults) :
         LET R == RankedResults[r]
         IN  /\ R.entities # None
             /\ LET E == R.entities[1]
                IN  /\ \A a, b \in 1..Len(E) : a # b => PairOf(E[a]) # PairOf(E[b])
                    /\ {PairOf(E[a]) : a \in 1..Len(E)} = {PairAt(p) : p \in WalkPos(R)}
                    /\ \A a, b \in 1..Len(E) :
                          a < b => WalkBefore(FirstPos(R, PairOf(E[a])),
                                              FirstPos(R, PairOf(E[b])))

C7_Witness ==
    /\ RankingReturned
    /\ \E r \in 1..Len(RankedResults) :
          LET R == RankedResults[r]
          IN  /\ \E p, q \in WalkPos(R) : p # q /\ PairAt(p) = PairAt(q)
              /\ \E p, q \in WalkPos(R) :
                    /\ PairAt(p) # PairAt(q)
                    /\ WalkBefore(p, q)
                    /\ p[2] > q[2]
              /\ Len(R.entities[1]) = 2

\* C8: every returned document has an entities list, never null or absent;
\* the list is empty when include_entities is false, when no retained chunk
\* has a linked entity, and when the linkage lookup returned no row.
C8_EntitiesAlwaysList ==
    RankingReturned =>
      \A r \in 1..Len(RankedResults) :
         LET R == RankedResults[r]
         IN  /\ R.entities # None
             /\ ~req.include_entities => R.entities = Some(<<>>)
             /\ WalkPos(R) = {} => R.entities = Some(<<>>)
             /\ ent_rows = <<>> => R.entities = Some(<<>>)

C8_Witness ==
    /\ RankingReturned
    /\ req.include_entities
    /\ \E r \in 1..Len(RankedResults) : RankedResults[r].entities = Some(<<>>)
    /\ \E r \in 1..Len(RankedResults) :
          RankedResults[r].entities # None /\ RankedResults[r].entities # Some(<<>>)

\* C9: when the entity-linkage lookup fails, the ranking function still
\* returns the full ranked document list, every document with empty entities.
C9_EntityFailureDegrades ==
    fault = "entity_query" =>
      /\ RankingReturned
      /\ Len(RankedResults) = Len(docs_list)
      /\ \A r \in 1..Len(RankedResults) :
            /\ RankedResults[r].document_id = docs_list[r].document_id
            /\ RankedResults[r].entities = Some(<<>>)

\* C10: when utils.search_rag raises inside search_rag_plus_graph, the
\* response is a failure, and it differs from the response to an empty pool.
EmptyPoolPlusGraphResponse ==
    PlusGraphResponse(FlattenHits(Returned(<<>>).value.results, req.top_docs),
                      EmptyGraph)
C10_RankingFailureSurfaced ==
    (req.ep = POST_PLUS /\ pc = "done" /\ ret.kind = "raise") =>
      /\ resp.status # 200
      /\ resp # EmptyPoolPlusGraphResponse

\* ------------------------------------------------- build_graph_for_chunks
\* What the contract calls a valid key: a non-empty sha256 and an ord that
\* an integer can be made of.
IsValidKey(key) ==
    /\ key.sha256 # None
    /\ key.sha256[1] # EmptyStr
    /\ key.ord # None
    /\ key.ord[1].py \in {"int", "digits"}
PlainKey(key) == [sha256 |-> key.sha256[1], ord |-> key.ord[1].v]
ValidOf(chunk_keys) ==
    LET sel == SelectSeq(chunk_keys, IsValidKey)
    IN  [i \in 1..Len(sel) |-> PlainKey(sel[i])]
FirstCallEnded == g_pc \in {"called", "again"}
NodesOfType(g, type) == {i \in 1..Len(g.nodes) : g.nodes[i].data.type = type}
EdgesOfLabel(g, label) == {i \in 1..Len(g.edges) : g.edges[i].data.label = label}
NodeIds(g) == {g.nodes[i].data.id : i \in 1..Len(g.nodes)}
EdgeIds(g) == {g.edges[i].data.id : i \in 1..Len(g.edges)}

\* C11: an invalid key (empty or missing sha256, missing ord, ord that is
\* no integer) never makes the call fail, and the valid keys of the call
\* reach the graph source, all of them and in their original order.
C11_InvalidKeysSkipped ==
    (FirstCallEnded /\ g_call.neo_driver) =>
        /\ g_first.exc \notin {"ValueError", "TypeError", "OverflowError"}
        /\ ValidOf(g_call.chunk_keys) # <<>> =>
              g_first.sent = Some(ValidOf(g_call.chunk_keys))

\* C12: when chunk_keys holds no valid key, the call returns the empty
\* graph and does not raise, whatever its other arguments are.
C12_NoValidKeyEmptyGraph ==
    (FirstCallEnded /\ ValidOf(g_call.chunk_keys) = <<>>) =>
        /\ g_first.kind = "return"
        /\ g_first.value = EmptyGraph

\* C13: a returned graph never holds two nodes with the same id; two keys
\* with the same content hash and ordinals 0 and 1, both chunks being in the
\* store, give exactly 1 document node, 2 chunk nodes and 2 HAS_CHUNK edges.
ScenarioD(chunk_keys) ==
    /\ Len(chunk_keys) = 2
    /\ Len(ValidOf(chunk_keys)) = 2
    /\ ValidOf(chunk_keys)[1].sha256 = ValidOf(chunk_keys)[2].sha256
    /\ {ValidOf(chunk_keys)[1].ord, ValidOf(chunk_keys)[2].ord} = {0, 1}
    /\ \A i \in 1..2 :
          NeoHasChunk(ValidOf(chunk_keys)[i].sha256, ValidOf(chunk_keys)[i].ord)
C13_NoDuplicateNodes ==
    (FirstCallEnded /\ g_first.kind = "return") =>
        /\ \A i, j \in 1..Len(g_first.value.nodes) :
              g_first.value.nodes[i].data.id = g_first.value.nodes[j].data.id
                  => i = j
        /\ ScenarioD(g_call.chunk_keys) =>
              /\ Cardinality(NodesOfType(g_first.value, "doc")) = 1
              /\ Cardinality(NodesOfType(g_first.value, "chunk")) = 2
              /\ Cardinality(EdgesOfLabel(g_first.value, "HAS_CHUNK")) = 2
C13_Witness ==
    /\ FirstCallEnded
    /\ g_first.kind = "return"
    /\ ScenarioD(g_call.chunk_keys)
    /\ Cardinality(NodesOfType(g_first.value, "entity")) = 2
    /\ Len(g_first.value.nodes) = 5

\* C14: the id of every returned edge is "e:" source "->" target ":" label,
\* and no two returned edges have the same source, target and label.
C14_EdgeIdsAndUniqueness ==
    (FirstCallEnded /\ g_first.kind = "return") =>
        /\ \A i \in 1..Len(g_first.value.edges) :
              LET e == g_first.value.edges[i].data
              IN  e.id = <<"e", e.source, e.target, e.label>>
        /\ \A i, j \in 1..Len(g_first.value.edges) :
              LET e == g_first.value.edges[i].data
                  f == g_first.value.edges[j].data
              IN  (e.source = f.source /\ e.target = f.target /\ e.label = f.label)
                      => i = j
C14_Witness ==
    /\ FirstCallEnded
    /\ g_first.kind = "return"
    /\ Cardinality(EdgesOfLabel(g_first.value, "HAS_CHUNK")) = 2
    /\ Cardinality(EdgesOfLabel(g_first.value, "MENTIONS")) = 3

\* C15: two calls with the same chunk_keys and max_ent_per_chunk against the
\* unchanged store return node lists of equal size, edge lists of equal size,
\* the same set of node ids and the same set of edge ids; the chunk node of
\* a key has the same id in both.
C15_GraphIdempotent ==
    (g_pc = "again" /\ g_first.kind = "return" /\ g_second.kind = "return") =>
        /\ Len(g_first.value.nodes) = Len(g_second.value.nodes)
        /\ Len(g_first.value.edges) = Len(g_second.value.edges)
        /\ NodeIds(g_first.value) = NodeIds(g_second.value)
        /\ EdgeIds(g_first.value) = EdgeIds(g_second.value)

\* C16: every document node of a returned graph has the id "doc:" followed
\* by the content hash, and its data carries the content hash (sha256), the
\* full title and the source URL.
C16_DocNodeAttributes ==
    (FirstCallEnded /\ g_first.kind = "return") =>
        \A i \in NodesOfType(g_first.value, "doc") :
            LET n == g_first.value.nodes[i].data
            IN  /\ \E sha \in {201, 202} : n.id = <<"doc", sha>>
                /\ {"sha256", "fullTitle", "sourceUrl"} \subseteq DOMAIN n

\* ------------------------------------------- search_rag_plus_graph: graph
GraphSourceFailed == pc = "done" /\ req.ep = POST_PLUS /\ fault = "graph_query"

\* C17: when the graph source fails during build_graph_for_chunks, nothing
\* of a graph reaches the client: the response holds the complete hits of
\* the ranking and the empty graph.
C17_NoPartialGraph ==
    GraphSourceFailed =>
        /\ resp.status = 200
        /\ resp.body.graph = EmptyGraph
        /\ ret.kind = "return"
        /\ resp.body.hits = FlattenHits(ret.value.results, req.top_docs)
C17_Witness ==
    /\ GraphSourceFailed
    /\ Len(resp.body.hits) >= 2
    /\ GraphCypher(GraphKeys(hits), MaxEntPerChunk, "fwd").docs # <<>>

\* C18: a failure of the graph collaborator as a whole reaches the caller of
\* the graph request as a failure: the response is not the one of a graph
\* that is merely empty.
C18_GraphFaultPropagated ==
    GraphSourceFailed => ~(resp.status = 200 /\ resp.body.graph = EmptyGraph)

\* -------------------------------------------- search_rag_plus_graph: hits
Flattened == req.ep = POST_PLUS /\ pc \in {"graph", "respond", "done"}
RECURSIVE ChunksBefore(_, _)
ChunksBefore(results_, d) ==
    IF d <= 1 THEN 0
    ELSE ChunksBefore(results_, d - 1) + Len(results_[d - 1].chunks)

\* C19: before truncation there is exactly one hit per chunk of every
\* document of the ranking result, in document order, with the chunk's text,
\* ord and chunk_id, the document's sha256, title and document_id, and the
\* negated distance of the chunk as score.
C19_OneHitPerChunk ==
    Flattened =>
        LET R == rag.results
            E == EmitHits(R)
        IN  /\ Len(E) = ChunksBefore(R, Len(R) + 1)
            /\ \A d \in 1..Len(R) : \A j \in 1..Len(R[d].chunks) :
                  LET h == E[ChunksBefore(R, d) + j]
                      c == R[d].chunks[j]
                  IN  /\ h.text = c.text
                      /\ h.ord = c.ord
                      /\ h.chunk_id = c.chunk_id
                      /\ h.sha256 = R[d].sha256
                      /\ h.title = R[d].title
                      /\ h.document_id = R[d].document_id
                      /\ h.score = 0 - c.distance
C19_Witness ==
    /\ Flattened
    /\ Len(rag.results) = 2
    /\ Len(rag.results[1].chunks) = 2
    /\ \E j \in 1..2 : rag.results[1].chunks[j].distance > 0

\* C20: the returned hits are in non-increasing score order, there are
\* exactly min(3 * top_k, number of emitted hits) of them, and no emitted hit
\* that was cut has a strictly higher score than a hit that was kept.
C20_HitsSortedAndCut ==
    (Flattened /\ pc = "done") =>
        LET E == EmitHits(rag.results)
            kept == SeqToSet(resp.body.hits)
            cut == SeqToSet(E) \ kept
        IN  /\ \A i \in 1..(Len(resp.body.hits) - 1) :
                  resp.body.hits[i].score >= resp.body.hits[i + 1].score
            /\ Len(resp.body.hits) = Min(HitsPerDoc * req.top_docs, Len(E))
            /\ kept \subseteq SeqToSet(E)
            /\ \A c \in cut : \A k \in kept : c.score <= k.score

\* ------------------------------------- search_rag_plus_graph: graph keys
GraphAsked == pc = "done" /\ req.ep = POST_PLUS /\ req.with_graph
RowOfChunk(chunk_id) == rows[CHOOSE i \in 1..Len(rows) : rows[i].chunk_id = chunk_id]
ShaInStore(document_id) ==
    IF document_id \in DOMAIN meta_map THEN meta_map[document_id].sha256 ELSE None

FreshGraphs(hs) ==
    {BuildGraphForChunks(HandlerKeys(hs), MaxEntPerChunk, TRUE,
                         [fails |-> FALSE, scan |-> scan]).value : scan \in ScanOrders}

\* C22: requests are independent: when the graph source answers, the graph
\* of a /search_rag_plus_graph request with with_graph = true is the graph
\* the store holds for its hits, whatever requests were served before it.
C22_GraphIndependentOfHistory ==
    (GraphAsked /\ GraphKeys(hits) # <<>> /\ fault # "graph_query")
        => resp.body.graph \in FreshGraphs(hits)

\* C24: no request accepted by search_rag, GET /search_rag or
\* GET /search_docs ends in a division by zero when averaging.
C24_AverageNeverDividesByZero ==
    ret.kind = "raise" => ret.exc # "ZeroDivisionError"

\* The MENTIONS edges of graph g that leave node id.
MentionsFrom(g, id) == {i \in EdgesOfLabel(g, "MENTIONS") : g.edges[i].data.source = id}
EntityNodeIds(g) == {g.nodes[i].data.id : i \in NodesOfType(g, "entity")}

\* C25: in every returned graph the MENTIONS edges leaving one chunk node
\* are at most max_ent_per_chunk, and their targets are distinct entity
\* nodes of the graph.
C25_EntityCapPerChunk ==
    (FirstCallEnded /\ g_first.kind = "return") =>
        \A c \in NodesOfType(g_first.value, "chunk") :
            LET out == MentionsFrom(g_first.value, g_first.value.nodes[c].data.id)
            IN  /\ Cardinality(out) <= g_call.max_ent_per_chunk
                /\ \A i, j \in out :
                      g_first.value.edges[i].data.target = g_first.value.edges[j].data.target
                          => i = j
                /\ \A i \in out :
                      g_first.value.edges[i].data.target \in EntityNodeIds(g_first.value)
\* A chunk with two mentions in the store is returned with one, the cap.
C25_Witness ==
    /\ FirstCallEnded
    /\ g_first.kind = "return"
    /\ g_call.max_ent_per_chunk = 1
    /\ Len(NeoMentions(201, 0)) = 2
    /\ <<"chunk", 201, 0>> \in NodeIds(g_first.value)
    /\ Cardinality(MentionsFrom(g_first.value, <<"chunk", 201, 0>>)) = 1

\* C26: in every returned graph the source and the target of every edge
\* are ids of nodes of the same graph.
C26_NoDanglingEdge ==
    (FirstCallEnded /\ g_first.kind = "return") =>
        \A i \in 1..Len(g_first.value.edges) :
            /\ g_first.value.edges[i].data.source \in NodeIds(g_first.value)
            /\ g_first.value.edges[i].data.target \in NodeIds(g_first.value)
\* A graph of two chunks whose entity lists were cut, with both edge kinds.
C26_Witness ==
    /\ FirstCallEnded
    /\ g_first.kind = "return"
    /\ g_call.max_ent_per_chunk = 1
    /\ Cardinality(EdgesOfLabel(g_first.value, "HAS_CHUNK")) = 2
    /\ Cardinality(EdgesOfLabel(g_first.value, "MENTIONS")) = 2
    /\ Cardinality(NodesOfType(g_first.value, "entity")) = 1

IngestDone(r) == i_pc[r] = "done"

\* C23: when an ingestion has ended, on whatever path, the Postgres
\* connections it opened (the one of ingest_pdf_with_graph and the one of
\* ingest_pdf) are closed.
C23_ConnectionsReleased ==
    \A r \in Uploaders :
        IngestDone(r) => (i_conn[r].outer # "open" /\ i_conn[r].inner # "open")

\* Request r is about to ingest text it finds intact at its temp_path, and
\* the document of that text and all its chunks are already stored.
AlreadyIngested(r) ==
    /\ i_pc[r] = "opened"
    /\ i_up[r].bytes # 0
    /\ fs[i_up[r].filename].ino = i_fd[r]
    /\ ShaOfText(i_up[r].bytes) \in DOMAIN document_tbl
    /\ \A i \in 1..Len(ChunksOfText(i_up[r].bytes)) :
          [document_id |-> document_tbl[ShaOfText(i_up[r].bytes)].id, ord |-> i - 1]
              \in chunk_tbl

\* C27: ingesting through /ingest a text that is already stored, with no
\* fault of the stores, succeeds with the document_id of the first
\* ingestion and leaves the document and chunk rows as they are.
C27_ReingestIdempotent ==
    [][\A r \in Uploaders :
          (AlreadyIngested(r) /\ i_pc'[r] = "done"
              /\ i_out'[r].fault = "none" /\ i_out'[r].use = "works")
          => /\ i_resp'[r].status = 200
             /\ i_resp'[r].body.document_id
                   = document_tbl[ShaOfText(i_up[r].bytes)].id
             /\ document_tbl' = document_tbl
             /\ chunk_tbl' = chunk_tbl]_vars

\* C28: when ingest_pdf_with_graph returns None the answer of /ingest is
\* 400, and it is 500 only when the ingestion raised.
C28_NoneIs400 ==
    \A r \in Uploaders :
        IngestDone(r) =>
            /\ (i_out[r].kind = "return" /\ i_out[r].value = None)
                  => i_resp[r].status = 400
            /\ i_resp[r].status = 500 => i_out[r].kind = "raise"

\* C29: concurrent /ingest requests do not interfere through the temporary
\* file: while a request waits for its upload its temp file is still the
\* file it opened, and what its ingestion finds at temp_path is the bytes
\* it uploaded.
C29_TempFilesDoNotInterfere ==
    \A r \in Uploaders :
        /\ i_pc[r] = "opened" => fs[i_up[r].filename].ino = i_fd[r]
        /\ IngestDone(r) => i_read[r] = i_up[r].bytes

ChunkReturned == c_pc = "returned"

\* The chunks are as described for words, step and size: chunk k (from 0)
\* has at most size words and is the words from k * step on, and every
\* word lies in some chunk.
ChunksAsDescribed(chunks, words, step, size) ==
    /\ \A k \in 1..Len(chunks) :
          LET got == Split(chunks[k])
          IN  /\ Len(got) <= size
              /\ got # <<>>
              /\ got = SubSeq(words, (k - 1) * step + 1, (k - 1) * step + Len(got))
    /\ \A p \in 1..Len(words) :
          \E k \in 1..Len(chunks) :
              (k - 1) * step < p /\ p <= (k - 1) * step + Len(Split(chunks[k]))

\* The call ends: the step is at least 1, so each pass moves the index
\* forward; the index stays within one step of the last word; and the call
\* is never stuck before it has returned.
ChunkTerminates ==
    /\ ChunkStep(c_arg.size, c_arg.overlap) >= 1
    /\ c_pc = "loop" =>
          c_i < Len(Split(c_arg.text)) + ChunkStep(c_arg.size, c_arg.overlap)
    /\ ChunkReturned \/ ENABLED ChunkNext

\* What chunk_text returns, for the arguments that satisfy ok.
ChunkPost(ok) ==
    LET words == Split(c_arg.text)
        step == Max(1, c_arg.size - c_arg.overlap)
    IN  ChunkReturned =>
            /\ words = <<>> => c_chunks = <<>>
            /\ (words # <<>> /\ ok)
                  => ChunksAsDescribed(c_chunks, words, step, c_arg.size)

\* C30 as stated: for every size and overlap chunk_text terminates, returns
\* no chunks for a text without words, and otherwise chunks of at most size
\* words, chunk i starting at word i * step, every word in some chunk.
C30_AsStated == ChunkTerminates /\ ChunkPost(TRUE)

\* C30: chunk_text terminates for every size and overlap and returns no
\* chunks for a text without words; for size >= 1 and overlap >= 0 it
\* returns chunks of at most size words, chunk i starting at word i * step,
\* and every word of the text lies in some chunk.
C30_ChunkText ==
    ChunkTerminates /\ ChunkPost(c_arg.size >= 1 /\ c_arg.overlap >= 0)
\* Three words cut into overlapping chunks of two.
C30_Witness ==
    /\ ChunkReturned
    /\ c_arg.size = 2
    /\ c_arg.overlap = 1
    /\ Len(Split(c_arg.text)) = 3
    /\ Len(c_chunks) = 3

====
